---- MODULE Spec2Model ----
(***************************************************************************)
(* Model of the network-analytics collector (net_analytics_collector.py):  *)
(* the single-threaded scheduler loop of main(), its three external        *)
(* probes, the SQLite writer connection and the hourly CSV writer.         *)
(*                                                                         *)
(* Time is counted in ticks of 100 ms, the length of one idle-wait         *)
(* increment (time.sleep(0.1)).  The intervals are the environment-        *)
(* configurable ones of the source, set to small values.                   *)
(* An optional value (Python None) is a sequence of length 0, a present    *)
(* value v is <<v>>.                                                       *)
(***************************************************************************)
EXTENDS Integers, Sequences, FiniteSets, TLC

\* ------------------------------------------------------------ configuration
TicksPerSec == 10
TicksPerHour == 36000
PING_INTERVAL_SEC == 1
TRACEROUTE_REFRESH_SEC == 2
SPEEDTEST_INTERVAL_SEC == 2
MaxHops == 3
DEST_HOST == "8.8.8.8"
CSV_PINGS_NAME == "pings.csv"
CSV_TRACES_NAME == "traceroutes.csv"
CSV_SPEEDTESTS_NAME == "speedtests.csv"

\* ------------------------------------------------------------------ bounds
MaxCycles == 3
StartTime == 35980
PingTicks == 1
TraceTicks == 2
SpeedTicks == 3
MaxFails == 1
MaxRows == 4

NoTool == "none"
NoServer == "(default)"

VARIABLES
    pc,                 \* position of main(): while, trace, ping, speed, sleep, done, crashed
    shutdown,           \* _shutdown
    clock,              \* wall clock, in ticks
    now,                \* main: now (sampled at the top of the cycle)
    cycles,             \* number of cycles entered
    last_trace_ts,      \* main: last_trace_ts
    last_speedtest_ts,  \* main: last_speedtest_ts
    hop_ips,            \* main: hop_ips
    targets,            \* main: targets of the current cycle
    tidx,               \* position of the latency loop in targets
    ts_ms,              \* main: ts_ms of the probe in flight
    tool,               \* main: tool
    servers,            \* main: servers (their ids)
    sidx,               \* position of the throughput loop in servers
    sleep_left,         \* idle-wait increments still to run
    db,                 \* the writer connection's view of the three tables
    durable,            \* the committed tables, what another connection reads
    conn_open,          \* the writer connection is open
    csvw,               \* HourlyCSV: current_hour_dir and the open files
    fs,                 \* the flat-file tree: <<hour, name>> -> rows
    inflight,           \* external probe processes running
    probe_log,          \* probes started in the current cycle, in order
    base,               \* table lengths at the top of the current cycle
    discoveries,        \* every discovery so far: its cycle's now and its hops
    fails,              \* probes that failed so far (discovery, latency, throughput)
    fault,              \* the sink whose write raised, if any
    runs,               \* the wall-clock time of every start of the process
    reply,              \* the Query Service's latest answer
    db_exists,          \* the store file (DB_PATH) exists
    tracer              \* the discovery tool found in PATH, if any

vars == <<pc, shutdown, clock, now, cycles, last_trace_ts, last_speedtest_ts,
          hop_ips, targets, tidx, ts_ms, tool, servers, sidx, sleep_left, db,
          durable, conn_open, csvw, fs, inflight, probe_log, base, discoveries,
          fails, fault, runs, reply,
          db_exists, tracer>>

\* ----------------------------------------------------------------- helpers
Some(v) == <<v>>
None == <<>>

FirstN(s, n) == SubSeq(s, 1, IF Len(s) < n THEN Len(s) ELSE n)

\* the tag is the bare index
HopTag_BareIndex(i) == ToString(i)

\* main, line 408: f"hop{idx}"
HopTag(i) == "hop" \o ToString(i)

\* the destination is put first
Targets_DestFirst(hops) ==
    <<(<<DEST_HOST, "dest">>)>> \o [i \in 1..Len(hops) |-> <<hops[i], HopTag(i)>>]

\* main, lines 406-409
Targets(hops) ==
    [i \in 1..Len(hops) |-> <<hops[i], HopTag(i)>>] \o <<(<<DEST_HOST, "dest">>)>>

\* the latency cadence is taken for the refresh interval
TraceDue_PingCadence(n, last, hops) ==
    (n - last >= PING_INTERVAL_SEC * TicksPerSec) \/ hops = <<>>

\* main, line 395
TraceDue(n, last, hops) ==
    (n - last >= TRACEROUTE_REFRESH_SEC * TicksPerSec) \/ hops = <<>>

\* the interval is not looked at
SpeedDue_EveryCycle(t, n, last) == t # NoTool

\* main, line 427
SpeedDue(t, n, last) ==
    t # NoTool /\ (n - last >= SPEEDTEST_INTERVAL_SEC * TicksPerSec)

\* the break at lines 421-422 is left out
LatencyLoopEnds_NoBreak(sd, i, tgts) == i = Len(tgts)

\* main, lines 421-422 and the exhaustion of `for ip, tag in targets`
LatencyLoopEnds(sd, i, tgts) == sd \/ i = Len(tgts)

\* the last server of the list is left out
NextServerFollows_SkipsLast(sd, i, srv) == srv # <<>> /\ ~sd /\ i + 1 < Len(srv)

\* main, lines 428-429, 441-443: another server follows in the batch
NextServerFollows(sd, i, srv) == srv # <<>> /\ ~sd /\ i < Len(srv)

\* main, line 392
LoopContinues(sd) == ~sd

\* the wait is slept to its end whatever the flag says
IdleWaits_SleepsOn(sd, left) == left > 0

\* main, lines 457-459: the idle wait goes on
IdleWaits(sd, left) == ~sd /\ left > 0

\* run_cmd: subprocess.run starts the child ...
Launch(running, p) == running \cup {p}
\* the child is started and not waited for
Await_NoWait(running, p) == running

\* ... and returns only when it has ended or timed out
Await(running, p) == running \ {p}

\* do_traceroute: at most three addresses, in the order of the tool's output
TraceOutcomes ==
    { <<>>, <<"10.0.0.1">>, <<"10.0.0.2", "10.0.0.1", "10.0.0.3">> }

\* do_ping: (True, rtt) or (False, None)
PingOutcomes == { [ok |-> TRUE, rtt |-> Some(7)], [ok |-> FALSE, rtt |-> None] }

\* run_speedtest: the result of a probe that did not fail, as the tools
\* report it (latency, download and upload present; jitter only from ookla,
\* and possibly 0)
SpeedResult(t, sid) ==
    [tool |-> t,
     server_id |-> IF sid = NoServer THEN "auto" ELSE sid,
     server_name |-> "isp",
     ping_ms |-> Some(12),
     download_mbps |-> Some(90),
     upload_mbps |-> Some(10),
     jitter_ms |-> IF t = "ookla" THEN Some(0) ELSE None]

\* ------------------------------------------------------------ SQLite tables
EmptyTables == [pings |-> <<>>, traceroutes |-> <<>>, speedtests |-> <<>>]

\* the row takes the place of the rows stored before
InsertPing_Replaces(d, row) == [d EXCEPT !.pings = <<row>>]

\* main, line 414: INSERT INTO pings
InsertPing(d, row) == [d EXCEPT !.pings = Append(@, row)]
InsertTrace(d, row) == [d EXCEPT !.traceroutes = Append(@, row)]
InsertSpeedtest(d, row) == [d EXCEPT !.speedtests = Append(@, row)]

\* the commit is left out
Commit_Skipped(view, committed) == committed

\* conn.commit(): the connection's view becomes the durable one
Commit(view, committed) == view

\* main, line 414
PingRow(ts, ip, tag, ok, rtt) ==
    [ts_ms |-> ts, target |-> ip, tag |-> tag,
     rtt_ms |-> IF ok THEN rtt ELSE None,
     success |-> IF ok THEN 1 ELSE 0]

\* the hops are counted from 0
TraceRow_CountsFromZero(ts, i, ip) ==
    [ts_ms |-> ts, dest |-> DEST_HOST, hop |-> i - 1, ip |-> ip]

\* main, lines 400-401: enumerate(hop_ips, start=1)
TraceRow(ts, i, ip) == [ts_ms |-> ts, dest |-> DEST_HOST, hop |-> i, ip |-> ip]

\* main, lines 436-438
SpeedRow(ts, res) ==
    [ts_ms |-> ts, tool |-> res.tool, server_id |-> res.server_id,
     server_name |-> res.server_name, ping_ms |-> res.ping_ms,
     download_mbps |-> res.download_mbps, upload_mbps |-> res.upload_mbps,
     jitter_ms |-> res.jitter_ms]

TableLens(d) ==
    [pings |-> Len(d.pings), traceroutes |-> Len(d.traceroutes),
     speedtests |-> Len(d.speedtests)]

\* ------------------------------------------------------------- hourly CSVs
PingHeader == <<"ts_ms", "target", "tag", "rtt_ms", "success">>
TraceHeader == <<"ts_ms", "dest", "hop", "ip">>
SpeedHeader == <<"ts_ms", "tool", "server_id", "server_name", "ping_ms",
                 "download_mbps", "upload_mbps", "jitter_ms">>

\* the directory of the hour the clock showed one tick earlier
HourDir_PreviousTick(t) == (t - 1) \div TicksPerHour

\* HourlyCSV._hour_dir: the directory of the wall-clock hour
HourDir(t) == t \div TicksPerHour

FileRows(f, key) == IF key \in DOMAIN f THEN f[key] ELSE <<>>

AppendRow(f, key, row) ==
    [k \in DOMAIN f \cup {key} |->
        IF k = key THEN Append(FileRows(f, key), row) ELSE f[k]]

\* HourlyCSV.__init__: no hour key, no cached handle, no file object open
NewHourlyCSV == [current_hour_dir |-> None, files |-> {}, open |-> {}]

\* the cache is emptied and its file objects are left open
Rotate_LeavesOpen(cw) == [cw EXCEPT !.files = {}]

\* HourlyCSV._rotate: every cached handle is flushed and closed, the cache
\* is emptied; a handle is the path <<hour, name>> it was opened at
Rotate(cw) == [cw EXCEPT !.open = @ \ cw.files, !.files = {}]

\* the header goes into every file that is opened
HeaderDue_OnEveryOpen(rows) == TRUE

\* HourlyCSV._ensure_open: f.tell() == 0, the file opened for append is empty
HeaderDue(rows) == rows = <<>>

\* HourlyCSV._ensure_open followed by writer.writerow(row)
CsvWrite(st, t, name, header, row) ==
    LET hour == HourDir(t)
        cw0 == IF st.csvw.current_hour_dir # Some(hour)
               THEN [Rotate(st.csvw) EXCEPT !.current_hour_dir = Some(hour),
                                            !.files = {}]
               ELSE st.csvw
        opening == \A h \in cw0.files : h[2] # name
        cw1 == IF opening
               THEN [cw0 EXCEPT !.files = @ \cup {<<hour, name>>},
                                !.open = @ \cup {<<hour, name>>}]
               ELSE cw0
        key == CHOOSE h \in cw1.files : h[2] = name
        f1 == IF opening /\ HeaderDue(FileRows(st.fs, key))
              THEN AppendRow(st.fs, key, header)
              ELSE st.fs
    IN  [csvw |-> cw1, fs |-> AppendRow(f1, key, row)]

\* csv.writer's rendering of a value
Cell(v) == ToString(v)
\* "" if v is None else v
NoneAsEmpty(v) == IF v = None THEN "" ELSE Cell(v[1])
\* v or ""
FalsyAsEmpty(v) == IF v = None \/ v = Some(0) THEN "" ELSE Cell(v[1])
StrOrEmpty(s) == s

\* the row does not reach the flat file
WritePing_Dropped(st, t, r) == [csvw |-> st.csvw, fs |-> st.fs]

\* HourlyCSV.write_ping
WritePing(st, t, r) ==
    CsvWrite(st, t, CSV_PINGS_NAME, PingHeader,
             <<Cell(r.ts_ms), r.target, r.tag, NoneAsEmpty(r.rtt_ms), Cell(r.success)>>)

\* HourlyCSV.write_trace
WriteTrace(st, t, r) ==
    CsvWrite(st, t, CSV_TRACES_NAME, TraceHeader,
             <<Cell(r.ts_ms), r.dest, Cell(r.hop), StrOrEmpty(r.ip)>>)

\* HourlyCSV.write_speedtest
WriteSpeedtest(st, t, r) ==
    CsvWrite(st, t, CSV_SPEEDTESTS_NAME, SpeedHeader,
             <<Cell(r.ts_ms), r.tool, StrOrEmpty(r.server_id), StrOrEmpty(r.server_name),
               FalsyAsEmpty(r.ping_ms), FalsyAsEmpty(r.download_mbps),
               FalsyAsEmpty(r.upload_mbps), FalsyAsEmpty(r.jitter_ms)>>)

\* ----------------------------------------------------------------- startup
AUTO_NUM_SERVERS == 2

\* environment and tool listings the process may start under
StartupConfigs ==
    { [tool |-> NoTool, ids |-> <<>>, auto |-> TRUE, listed |-> <<>>],
      [tool |-> "ookla", ids |-> <<"s1", "s2">>, auto |-> TRUE, listed |-> <<>>],
      [tool |-> "ookla", ids |-> <<>>, auto |-> TRUE, listed |-> <<"s1", "s2", "s3">>],
      [tool |-> "speedtest-cli", ids |-> <<>>, auto |-> TRUE, listed |-> <<>>],
      [tool |-> "speedtest-cli", ids |-> <<>>, auto |-> FALSE, listed |-> <<"s1">>] }

\* main, lines 378-384 (auto_select_servers keeps the first AUTO_NUM_SERVERS)
SelectServers(c) ==
    IF c.tool # NoTool /\ c.ids # <<>> THEN c.ids
    ELSE IF c.tool # NoTool /\ c.auto THEN FirstN(c.listed, AUTO_NUM_SERVERS)
    ELSE <<>>

\* the Query Service has not answered yet
NoReply == [kind |-> "none", sent |-> None, args |-> <<>>, rows |-> <<>>]

\* main, lines 359-390, entered with `entered` cycles of the budget used up
Startup(configs, entered, tracers) ==
    /\ pc = "while"
    /\ shutdown = FALSE
    /\ clock = StartTime
    /\ now = 0
    /\ cycles = entered
    /\ last_trace_ts = 0
    /\ last_speedtest_ts = 0
    /\ hop_ips = <<>>
    /\ targets = <<>>
    /\ tidx = 0
    /\ ts_ms = 0
    /\ \E c \in configs : tool = c.tool /\ servers = SelectServers(c)
    /\ sidx = 0
    /\ sleep_left = 0
    /\ db = EmptyTables
    /\ durable = EmptyTables
    /\ conn_open = TRUE
    /\ csvw = NewHourlyCSV
    /\ fs = <<>>
    /\ inflight = {}
    /\ probe_log = <<>>
    /\ base = TableLens(EmptyTables)
    /\ discoveries = <<>>
    /\ fails = 0
    /\ fault = [sink |-> "none"]
    /\ runs = <<StartTime>>
    /\ reply = NoReply
    /\ db_exists = TRUE
    /\ tracer \in tracers

Init == Startup(StartupConfigs, 0, {"traceroute"})

\* ------------------------------------------------------ steps of the loop
\* the child process of the probe started next, and of the one that last started
ProbeId(kind, arg, log) == <<kind, arg, Len(log) + 1>>
Running(kind, arg, log) == <<kind, arg, Len(log)>>

LogStart(log, kind, arg) ==
    Append(log, [kind |-> kind, arg |-> arg, late |-> shutdown, ok |-> "pending"])

LogEnd(log, ok) ==
    [log EXCEPT ![Len(log)].ok = IF ok THEN "ok" ELSE "failed"]

\* main, lines 406-413: build the targets and call do_ping on the first one
StartLatency(hops, t, running, log) ==
    /\ targets' = Targets(hops)
    /\ tidx' = 1
    /\ ts_ms' = t
    /\ pc' = "ping"
    /\ inflight' = Launch(running, ProbeId("ping", Targets(hops)[1][1], log))
    /\ probe_log' = LogStart(log, "ping", Targets(hops)[1][1])

\* main, lines 429-431 / 444-445: call run_speedtest on server i (or on none)
StartSpeedtest(i, t, running, log) ==
    LET sid == IF servers = <<>> THEN NoServer ELSE servers[i]
    IN  /\ sidx' = i
        /\ ts_ms' = t
        /\ pc' = "speed"
        /\ inflight' = Launch(running, ProbeId("speed", sid, log))
        /\ probe_log' = LogStart(log, "speed", sid)

\* a failed outcome is persisted too
Persisted_Always(ok) == TRUE

\* main, lines 432-439: an outcome with "error" in it is logged, not persisted
Persisted(ok) == ok

\* main, lines 457-460: enter the idle wait
StartIdle(running, log) ==
    /\ pc' = "sleep"
    /\ sleep_left' = PING_INTERVAL_SEC * TicksPerSec
    /\ inflight' = running
    /\ probe_log' = log

\* a tool is taken to be there whatever PATH holds
TracerFound_Always(tr) == TRUE

\* do_traceroute, lines 211 and 226: which("traceroute"), which("mtr")
TracerFound(tr) == tr # NoTool

\* main, lines 392-396: a cycle starts
CycleStart ==
    /\ pc = "while"
    /\ LoopContinues(shutdown)
    /\ cycles < MaxCycles
    /\ cycles' = cycles + 1
    /\ now' = clock
    /\ base' = TableLens(db)
    /\ IF TraceDue(clock, last_trace_ts, hop_ips) /\ TracerFound(tracer)
       THEN /\ pc' = "trace"
            /\ inflight' = Launch(inflight, ProbeId("trace", DEST_HOST, <<>>))
            /\ probe_log' = LogStart(<<>>, "trace", DEST_HOST)
            /\ UNCHANGED <<targets, tidx, ts_ms, hop_ips, last_trace_ts, durable,
                           discoveries>>
       ELSE IF TraceDue(clock, last_trace_ts, hop_ips)
       THEN \* do_traceroute, lines 240-242: no tool, no child process, no hop
            /\ hop_ips' = <<>>
            /\ durable' = Commit(db, durable)
            /\ last_trace_ts' = clock
            /\ discoveries' = Append(discoveries, [at |-> clock, hops |-> <<>>])
            /\ StartLatency(<<>>, clock, inflight, <<>>)
       ELSE /\ StartLatency(hop_ips, clock, inflight, <<>>)
            /\ UNCHANGED <<hop_ips, last_trace_ts, durable, discoveries>>
    /\ UNCHANGED <<shutdown, clock, last_speedtest_ts, tool, servers, sidx, sleep_left,
                   db, conn_open, csvw, fs, fails, fault, runs, reply, db_exists,
                   tracer>>

RECURSIVE PersistHops(_, _, _, _, _)
\* main, lines 400-402: one row per hop, into both sinks
PersistHops(st, t, ts, hops, i) ==
    IF i > Len(hops) THEN st
    ELSE LET row == TraceRow(ts, i, hops[i])
             w == WriteTrace(st, t, row)
         IN  PersistHops([db |-> InsertTrace(st.db, row), csvw |-> w.csvw, fs |-> w.fs],
                         t, ts, hops, i + 1)

\* main, lines 396-413: do_traceroute returns
TraceReturns(hops) ==
    /\ pc = "trace"
    /\ hops # <<>> \/ fails < MaxFails
    /\ fails' = IF hops # <<>> THEN fails ELSE fails + 1
    /\ LET t == clock + TraceTicks
           kept == FirstN(hops, MaxHops)
           st == PersistHops([db |-> db, csvw |-> csvw, fs |-> fs], t, t, kept, 1)
       IN  /\ clock' = t
           /\ hop_ips' = kept
           /\ db' = st.db
           /\ csvw' = st.csvw
           /\ fs' = st.fs
           /\ durable' = Commit(st.db, durable)
           /\ last_trace_ts' = now
           /\ discoveries' = Append(discoveries, [at |-> now, hops |-> kept])
           /\ StartLatency(kept, t, Await(inflight, Running("trace", DEST_HOST, probe_log)),
                           LogEnd(probe_log, kept # <<>>))
    /\ UNCHANGED <<shutdown, now, cycles, last_speedtest_ts, tool, servers, sidx,
                   sleep_left, conn_open, base, fault, runs, reply,
                   db_exists, tracer>>

\* main, lines 424-455 from the end of the latency loop on
AfterLatency(t, running, log) ==
    IF SpeedDue(tool, now, last_speedtest_ts)
    THEN /\ StartSpeedtest(1, t, running, log)
         /\ UNCHANGED <<sleep_left, last_speedtest_ts>>
    ELSE /\ StartIdle(running, log)
         /\ UNCHANGED <<sidx, ts_ms, last_speedtest_ts>>

\* main, lines 413-431: do_ping returns
PingReturns(res) ==
    /\ pc = "ping"
    /\ res.ok \/ fails < MaxFails
    /\ LET t == clock + PingTicks
           ip == targets[tidx][1]
           tag == targets[tidx][2]
           row == PingRow(ts_ms, ip, tag, res.ok, res.rtt)
           db1 == InsertPing(db, row)
           w == WritePing([csvw |-> csvw, fs |-> fs], t, row)
           running == Await(inflight, Running("ping", ip, probe_log))
           log == LogEnd(probe_log, res.ok)
       IN  /\ clock' = t
           /\ db' = db1
           /\ csvw' = w.csvw
           /\ fs' = w.fs
           /\ fails' = IF res.ok THEN fails ELSE fails + 1
           /\ IF LatencyLoopEnds(shutdown, tidx, targets)
              THEN /\ durable' = Commit(db1, durable)
                   /\ AfterLatency(t, running, log)
                   /\ UNCHANGED <<targets, tidx>>
              ELSE /\ durable' = durable
                   /\ tidx' = tidx + 1
                   /\ ts_ms' = t
                   /\ pc' = "ping"
                   /\ inflight' = Launch(running, ProbeId("ping", targets[tidx + 1][1], log))
                   /\ probe_log' = LogStart(log, "ping", targets[tidx + 1][1])
                   /\ UNCHANGED <<targets, sidx, sleep_left, last_speedtest_ts>>
    /\ UNCHANGED <<shutdown, now, cycles, last_trace_ts, hop_ips, tool, servers,
                   conn_open, base, discoveries, fault, runs, reply,
                   db_exists, tracer>>

\* main, lines 431-455: run_speedtest returns
SpeedReturns(ok) ==
    /\ pc = "speed"
    /\ ok \/ fails < MaxFails
    /\ LET t == clock + SpeedTicks
           sid == IF servers = <<>> THEN NoServer ELSE servers[sidx]
           row == SpeedRow(ts_ms, SpeedResult(tool, sid))
           db1 == IF Persisted(ok) THEN InsertSpeedtest(db, row) ELSE db
           w == IF Persisted(ok) THEN WriteSpeedtest([csvw |-> csvw, fs |-> fs], t, row)
                ELSE [csvw |-> csvw, fs |-> fs]
           running == Await(inflight, Running("speed", sid, probe_log))
           log == LogEnd(probe_log, ok)
       IN  /\ clock' = t
           /\ db' = db1
           /\ csvw' = w.csvw
           /\ fs' = w.fs
           /\ durable' = Commit(db1, durable)
           /\ fails' = IF ok THEN fails ELSE fails + 1
           /\ IF NextServerFollows(shutdown, sidx, servers)
              THEN /\ StartSpeedtest(sidx + 1, t, running, log)
                   /\ UNCHANGED <<sleep_left, last_speedtest_ts>>
              ELSE /\ last_speedtest_ts' = now
                   /\ StartIdle(running, log)
                   /\ UNCHANGED <<sidx, ts_ms>>
    /\ UNCHANGED <<shutdown, now, cycles, last_trace_ts, hop_ips, targets, tidx, tool,
                   servers, conn_open, base, discoveries, fault, runs, reply,
                   db_exists, tracer>>

\* main, lines 457-460: one increment of the idle wait
SleepStep ==
    /\ pc = "sleep"
    /\ IdleWaits(shutdown, sleep_left)
    /\ sleep_left' = sleep_left - 1
    /\ clock' = clock + 1
    /\ UNCHANGED <<pc, shutdown, now, cycles, last_trace_ts, last_speedtest_ts, hop_ips,
                   targets, tidx, ts_ms, tool, servers, sidx, db, durable, conn_open,
                   csvw, fs, inflight, probe_log, base, discoveries, fails, fault,
                   runs, reply,
                   db_exists, tracer>>

\* main, lines 457-459: the idle wait is over, or is broken off
SleepEnd ==
    /\ pc = "sleep"
    /\ ~IdleWaits(shutdown, sleep_left)
    /\ pc' = "while"
    /\ UNCHANGED <<shutdown, clock, now, cycles, last_trace_ts, last_speedtest_ts,
                   hop_ips, targets, tidx, ts_ms, tool, servers, sidx, sleep_left, db,
                   durable, conn_open, csvw, fs, inflight, probe_log, base, discoveries,
                   fails, fault, runs, reply,
                   db_exists, tracer>>

\* main, lines 392 and 462-468: the loop is left
LoopExit ==
    /\ pc = "while"
    /\ ~LoopContinues(shutdown)
    /\ durable' = Commit(db, durable)
    /\ conn_open' = FALSE
    /\ csvw' = Rotate(csvw)
    /\ pc' = "done"
    /\ UNCHANGED <<shutdown, clock, now, cycles, last_trace_ts, last_speedtest_ts,
                   hop_ips, targets, tidx, ts_ms, tool, servers, sidx, sleep_left, db,
                   fs, inflight, probe_log, base, discoveries, fails,
                   fault, runs, reply,
                   db_exists, tracer>>

\* _sig_handler: SIGINT or SIGTERM arrives, at any point of the run
Signal ==
    /\ pc \notin {"done", "crashed"}
    /\ ~shutdown
    /\ shutdown' = TRUE
    /\ UNCHANGED <<pc, clock, now, cycles, last_trace_ts, last_speedtest_ts, hop_ips,
                   targets, tidx, ts_ms, tool, servers, sidx, sleep_left, db, durable,
                   conn_open, csvw, fs, inflight, probe_log, base, discoveries,
                   fails, fault, runs, reply,
                   db_exists, tracer>>

\* main, lines 413-415 with no handler around them: the INSERT (sink "db") or
\* HourlyCSV.write_ping (sink "csv") raises, and the exception leaves main()
PingWriteRaises(res, sink) ==
    /\ pc = "ping"
    /\ LET ip == targets[tidx][1]
           row == PingRow(ts_ms, ip, targets[tidx][2], res.ok, res.rtt)
       IN  /\ clock' = clock + PingTicks
           /\ db' = IF sink = "csv" THEN InsertPing(db, row) ELSE db
           /\ inflight' = Await(inflight, Running("ping", ip, probe_log))
           /\ probe_log' = LogEnd(probe_log, res.ok)
           /\ fault' = [sink |-> sink, row |-> row, at |-> clock + PingTicks]
    /\ pc' = "crashed"
    /\ conn_open' = FALSE
    /\ csvw' = Rotate(csvw)
    /\ UNCHANGED <<shutdown, now, cycles, last_trace_ts, last_speedtest_ts, hop_ips,
                   targets, tidx, ts_ms, tool, servers, sidx, sleep_left, durable, fs,
                   base, discoveries, fails, runs, reply,
                   db_exists, tracer>>

Next ==
    \/ CycleStart
    \/ \E hops \in TraceOutcomes : TraceReturns(hops)
    \/ \E res \in PingOutcomes : PingReturns(res)
    \/ \E ok \in BOOLEAN : SpeedReturns(ok)
    \/ SleepStep
    \/ SleepEnd
    \/ LoopExit
    \/ Signal

Spec == Init /\ [][Next]_vars

NextFault ==
    \/ Next
    \/ \E res \in PingOutcomes, sink \in {"db", "csv"} : PingWriteRaises(res, sink)

\* the collector on a store or a disk whose writes may fail
SpecFault == Init /\ [][NextFault]_vars

\* the interpreter goes on executing main(), and every probe call returns:
\* run_cmd bounds each child by its timeout (lines 199-204)
Progress ==
    /\ WF_vars(CycleStart)
    /\ WF_vars(\E hops \in TraceOutcomes : TraceReturns(hops))
    /\ WF_vars(\E res \in PingOutcomes : PingReturns(res))
    /\ WF_vars(\E ok \in BOOLEAN : SpeedReturns(ok))
    /\ WF_vars(SleepStep)
    /\ WF_vars(SleepEnd)
    /\ WF_vars(LoopExit)

\* the collector with a throughput tool and two servers, one cycle behind it
InitLive ==
    Startup({c \in StartupConfigs : c.tool = "ookla" /\ c.auto}, MaxCycles - 2,
            {"traceroute"})

SpecLive == InitLive /\ [][Next]_vars /\ Progress

\* the collector started on a host where the discovery tools may be missing
InitBare == Startup(StartupConfigs, 0, {"traceroute", NoTool})

SpecBare == InitBare /\ [][Next]_vars

\* the process is started again after it ended, once: main() runs from its
\* first line, under the same environment, on the store and the tree left behind
ProcessRestart ==
    /\ pc \in {"done", "crashed"}
    /\ Len(runs) = 1
    /\ cycles < MaxCycles
    /\ runs' = Append(runs, clock)
    /\ pc' = "while"
    /\ shutdown' = FALSE
    /\ now' = 0
    /\ last_trace_ts' = 0
    /\ last_speedtest_ts' = 0
    /\ hop_ips' = <<>>
    /\ targets' = <<>>
    /\ tidx' = 0
    /\ ts_ms' = 0
    /\ sidx' = 0
    /\ sleep_left' = 0
    /\ db' = durable
    /\ conn_open' = TRUE
    /\ csvw' = NewHourlyCSV
    /\ inflight' = {}
    /\ probe_log' = <<>>
    /\ base' = TableLens(durable)
    /\ fault' = [sink |-> "none"]
    /\ UNCHANGED <<clock, cycles, tool, servers, durable, fs, discoveries, fails, reply,
                   db_exists, tracer>>

NextRestart ==
    \/ Next
    \/ ProcessRestart

\* a first start with the bundled default server, two cycles before the end
\* of the cycles followed
InitRestart ==
    Startup({c \in StartupConfigs : c.tool = "speedtest-cli" /\ c.auto},
            MaxCycles - 2, {"traceroute"})

\* the collector stopped and started again
SpecRestart == InitRestart /\ [][NextRestart]_vars

\* ------------------------------------------------------------ Query Service
\* (net_analytics_webui_standalone.py; it reads the committed tables)

\* a set of integers as an ascending sequence
RECURSIVE Ascending(_)
Ascending(S) ==
    IF S = {} THEN <<>>
    ELSE LET m == CHOOSE x \in S : \A y \in S : x <= y
         IN  <<m>> \o Ascending(S \ {m})

RECURSIVE SumOf(_)
SumOf(s) == IF s = <<>> THEN 0 ELSE s[1] + SumOf(Tail(s))

\* the upper end of the range is left out
Between_OpenEnd(rows, start_ms, end_ms) ==
    SelectSeq(rows, LAMBDA r : start_ms <= r.ts_ms /\ r.ts_ms < end_ms)

\* WHERE ts_ms BETWEEN ? AND ?
Between(rows, start_ms, end_ms) ==
    SelectSeq(rows, LAMBDA r : start_ms <= r.ts_ms /\ r.ts_ms <= end_ms)

\* ORDER BY ts_ms ASC, along the index on ts_ms: rows of one ts_ms in rowid order
RECURSIVE OrderByTs(_)
OrderByTs(rows) ==
    IF rows = <<>> THEN <<>>
    ELSE LET r == rows[Len(rows)]
             s == OrderByTs(SubSeq(rows, 1, Len(rows) - 1))
             k == Cardinality({i \in 1..Len(s) : s[i].ts_ms <= r.ts_ms})
         IN  SubSeq(s, 1, k) \o <<r>> \o SubSeq(s, k + 1, Len(s))

\* SELECT ts_ms, target, tag, rtt_ms, success
PingTuple(r) == <<r.ts_ms, r.target, r.tag, r.rtt_ms, r.success>>
\* SELECT ts_ms, dest, hop, ip
TraceTuple(r) == <<r.ts_ms, r.dest, r.hop, r.ip>>
\* SELECT ts_ms, tool, server_id, server_name, ping_ms, download_mbps, upload_mbps, jitter_ms
SpeedTuple(r) ==
    <<r.ts_ms, r.tool, r.server_id, r.server_name, r.ping_ms, r.download_mbps,
      r.upload_mbps, r.jitter_ms>>

\* the existence of the file is not looked at: sqlite3.connect creates it
get_conn_AlwaysConnects(exists, tables) == Some(tables)

\* get_conn: None when the store file does not exist, else a connection to it
get_conn(exists, tables) == IF ~exists THEN None ELSE Some(tables)

\* sqlite3.connect creates the file it is given if there is none
FileAfter(exists, conn) == exists \/ conn # None

query_pings_raw(conn, start_ms, end_ms) ==
    LET rows == OrderByTs(Between(conn[1].pings, start_ms, end_ms))
    IN  IF conn = None THEN <<>>
        ELSE [i \in 1..Len(rows) |-> PingTuple(rows[i])]

query_speedtests(conn, start_ms, end_ms) ==
    LET rows == OrderByTs(Between(conn[1].speedtests, start_ms, end_ms))
    IN  IF conn = None THEN <<>>
        ELSE [i \in 1..Len(rows) |-> SpeedTuple(rows[i])]

\* SQLite's / on two integers: the quotient, truncated towards zero
TruncDiv(a, b) ==
    LET q == (IF a >= 0 THEN a ELSE -a) \div (IF b >= 0 THEN b ELSE -b)
    IN  IF (a >= 0) = (b >= 0) THEN q ELSE -q

\* the timestamp itself is taken for the bucket
BucketOf_NoTruncation(ts, bucket_ms) == ts

\* ((ts_ms / ?) * ?) AS bucket_ts
BucketOf(ts, bucket_ms) == TruncDiv(ts, bucket_ms) * bucket_ms

\* the tags, in the order of SQLite's binary collation
Tags == <<"dest", "hop1", "hop2", "hop3">>

\* AVG(CASE WHEN success=1 THEN rtt_ms END): NULL over no value, else the
\* quotient of the sum and the number of the values
AvgRtt(g) ==
    LET vals == SelectSeq(g, LAMBDA r : r.success = 1 /\ r.rtt_ms # None)
    IN  IF vals = <<>> THEN None
        ELSE Some([sum |-> SumOf([i \in 1..Len(vals) |-> vals[i].rtt_ms[1]]),
                   n |-> Len(vals)])

\* every row of the group is counted
SuccessCount_CountsRows(g) == Len(g)

\* SUM(success)
SuccessCount(g) == SumOf([i \in 1..Len(g) |-> g[i].success])

\* COUNT(*)
TotalCount(g) == Len(g)

\* GROUP BY bucket_ts, tag: the output rows of one bucket, a row per tag in it
RECURSIVE GroupRows(_, _, _, _)
GroupRows(rows, bucket_ms, b, j) ==
    IF j > Len(Tags) THEN <<>>
    ELSE LET g == SelectSeq(rows, LAMBDA r : BucketOf(r.ts_ms, bucket_ms) = b /\ r.tag = Tags[j])
         IN  (IF g = <<>> THEN <<>>
              ELSE << <<b, Tags[j], AvgRtt(g), SuccessCount(g), TotalCount(g)>> >>)
             \o GroupRows(rows, bucket_ms, b, j + 1)

\* ORDER BY bucket_ts ASC
RECURSIVE BucketRows(_, _, _, _)
BucketRows(rows, bucket_ms, buckets, i) ==
    IF i > Len(buckets) THEN <<>>
    ELSE GroupRows(rows, bucket_ms, buckets[i], 1) \o BucketRows(rows, bucket_ms, buckets, i + 1)

query_pings_bucketed(conn, start_ms, end_ms, bucket_ms) ==
    LET rows == Between(conn[1].pings, start_ms, end_ms)
        buckets == Ascending({BucketOf(rows[i].ts_ms, bucket_ms) : i \in 1..Len(rows)})
    IN  IF conn = None THEN <<>>
        ELSE BucketRows(rows, bucket_ms, buckets, 1)

\* the timestamp of the row inserted last
MaxTs_LastInserted(rows) == IF rows = <<>> THEN None ELSE Some(rows[Len(rows)].ts_ms)

\* SELECT MAX(ts_ms) FROM traceroutes: NULL over an empty table
MaxTs(rows) ==
    IF rows = <<>> THEN None
    ELSE Some(CHOOSE m \in {rows[i].ts_ms : i \in 1..Len(rows)} :
                  \A i \in 1..Len(rows) : rows[i].ts_ms <= m)

\* ORDER BY hop ASC
RECURSIVE OrderByHop(_)
OrderByHop(rows) ==
    IF rows = <<>> THEN <<>>
    ELSE LET r == rows[Len(rows)]
             s == OrderByHop(SubSeq(rows, 1, Len(rows) - 1))
             k == Cardinality({i \in 1..Len(s) : s[i].hop <= r.hop})
         IN  SubSeq(s, 1, k) \o <<r>> \o SubSeq(s, k + 1, Len(s))

query_last_traces(conn) ==
    LET max_ts == MaxTs(conn[1].traceroutes)
        rows == OrderByHop(SelectSeq(conn[1].traceroutes, LAMBDA r : r.ts_ms = max_ts[1]))
    IN  IF conn = None THEN <<>>
        ELSE IF max_ts = None THEN <<>>
        ELSE [i \in 1..Len(rows) |-> TraceTuple(rows[i])]

\* the connection is closed with rows of every table deleted
ReadOnly_DropsRows(tables) == EmptyTables

\* get_conn, the SELECTs and conn.close(): a connection of the Query Service
\* executes no other statement and commits nothing
ReadOnly(tables) == tables

\* int(qs.get(name, [default])[0]): the parameter as sent, or the default
IntParam(sent, default) == IF sent = None THEN default ELSE sent[1]

\* every width other than 0 is aggregated with
Bucketed_AnyNonZero(bucket_ms) == bucket_ms # 0

\* Handler.do_GET: `if bucket_ms and bucket_ms > 0`
Bucketed(bucket_ms) == bucket_ms # 0 /\ bucket_ms > 0

\* Handler.do_GET, /api/pings
ServePings(start_ms, end_ms, sent) ==
    LET bucket_ms == IntParam(sent, 0)
        conn == get_conn(db_exists, durable)
    IN  /\ reply' = IF Bucketed(bucket_ms)
                    THEN [kind |-> "bucketed", sent |-> sent,
                          args |-> <<start_ms, end_ms, bucket_ms>>,
                          rows |-> query_pings_bucketed(conn, start_ms, end_ms, bucket_ms)]
                    ELSE [kind |-> "raw", sent |-> sent,
                          args |-> <<start_ms, end_ms, bucket_ms>>,
                          rows |-> query_pings_raw(conn, start_ms, end_ms)]
        /\ db_exists' = FileAfter(db_exists, conn)
    /\ durable' = ReadOnly(durable)
    /\ UNCHANGED <<pc, shutdown, clock, now, cycles, last_trace_ts, last_speedtest_ts,
                   hop_ips, targets, tidx, ts_ms, tool, servers, sidx, sleep_left, db,
                   conn_open, csvw, fs, inflight, probe_log, base, discoveries, fails,
                   fault, runs, tracer>>

\* Handler.do_GET, /api/speedtests
ServeSpeedtests(start_ms, end_ms) ==
    LET conn == get_conn(db_exists, durable)
    IN  /\ reply' = [kind |-> "speedtests", sent |-> None, args |-> <<start_ms, end_ms>>,
                     rows |-> query_speedtests(conn, start_ms, end_ms)]
        /\ db_exists' = FileAfter(db_exists, conn)
    /\ durable' = ReadOnly(durable)
    /\ UNCHANGED <<pc, shutdown, clock, now, cycles, last_trace_ts, last_speedtest_ts,
                   hop_ips, targets, tidx, ts_ms, tool, servers, sidx, sleep_left, db,
                   conn_open, csvw, fs, inflight, probe_log, base, discoveries, fails,
                   fault, runs, tracer>>

\* Handler.do_GET, /api/latest_traceroute
ServeLatestTraceroute ==
    LET conn == get_conn(db_exists, durable)
    IN  /\ reply' = [kind |-> "latest_traceroute", sent |-> None, args |-> <<>>,
                     rows |-> query_last_traces(conn)]
        /\ db_exists' = FileAfter(db_exists, conn)
    /\ durable' = ReadOnly(durable)
    /\ UNCHANGED <<pc, shutdown, clock, now, cycles, last_trace_ts, last_speedtest_ts,
                   hop_ips, targets, tidx, ts_ms, tool, servers, sidx, sleep_left, db,
                   conn_open, csvw, fs, inflight, probe_log, base, discoveries, fails,
                   fault, runs, tracer>>

\* the requests sent: ranges [start, end], and bucket_ms (absent, or a number)
QueryRanges == { <<0, 3999>>, <<1000, 2000>>, <<StartTime, StartTime + TicksPerHour>> }
QueryWidths == { None, Some(0), Some(-1500), Some(1500), Some(2000) }

NextQuery ==
    \/ \E range \in QueryRanges, sent \in QueryWidths :
          ServePings(range[1], range[2], sent)
    \/ \E range \in QueryRanges : ServeSpeedtests(range[1], range[2])
    \/ ServeLatestTraceroute

\* rows the collector may have written to pings (main, line 414), in any
\* order of their timestamps
StoredPings ==
    << PingRow(2000, DEST_HOST, "dest", TRUE, Some(7)),
       PingRow(0, DEST_HOST, "dest", TRUE, Some(7)),
       PingRow(3000, DEST_HOST, "dest", TRUE, Some(10)),
       PingRow(1000, DEST_HOST, "dest", TRUE, Some(10)),
       PingRow(0, "10.0.0.1", "hop1", FALSE, None),
       PingRow(1000, DEST_HOST, "dest", FALSE, None),
       PingRow(2000, "10.0.0.1", "hop1", TRUE, Some(7)),
       PingRow(3000, "10.0.0.1", "hop1", FALSE, None),
       PingRow(1000, "10.0.0.1", "hop1", TRUE, Some(10)),
       PingRow(4000, DEST_HOST, "dest", TRUE, Some(7)) >>

\* discoveries the collector may have written to traceroutes (main, lines 400-402)
StoredTraces ==
    << <<TraceRow(1000, 1, "10.0.0.2"), TraceRow(1000, 2, "10.0.0.1"), TraceRow(1000, 3, "10.0.0.3")>>,
       <<TraceRow(2000, 1, "10.0.0.1")>>,
       <<TraceRow(3000, 1, "10.0.0.1"), TraceRow(3000, 2, "10.0.0.3")>> >>

\* rows the collector may have written to speedtests (main, lines 436-438)
StoredSpeedtests ==
    << SpeedRow(1000, SpeedResult("ookla", "s1")),
       SpeedRow(3000, SpeedResult("speedtest-cli", NoServer)),
       SpeedRow(2000, SpeedResult("ookla", "s2")) >>

\* the entries of `list` at the positions in S, in the order of the list or
\* in the opposite one
Pick(list, S, backwards) ==
    LET idx == Ascending(S)
    IN  [i \in 1..Len(idx) |-> list[idx[IF backwards THEN Len(idx) + 1 - i ELSE i]]]

RECURSIVE Concat(_)
Concat(ss) == IF ss = <<>> THEN <<>> ELSE ss[1] \o Concat(Tail(ss))

Picks(list, most) ==
    { Pick(list, S, backwards) :
        S \in {T \in SUBSET (1..Len(list)) : Cardinality(T) <= most},
        backwards \in BOOLEAN }

\* the committed tables a Query Service may be started over
QueryTables ==
    { [EmptyTables EXCEPT !.pings = p] : p \in Picks(StoredPings, MaxRows) }
    \cup { [EmptyTables EXCEPT !.traceroutes = Concat(d)] : d \in Picks(StoredTraces, MaxRows) }
    \cup { [EmptyTables EXCEPT !.speedtests = t] : t \in Picks(StoredSpeedtests, MaxRows) }

\* the Query Service over the store of a collector that has ended
InitQuery ==
    /\ pc = "done"
    /\ shutdown = TRUE
    /\ clock = StartTime
    /\ now = 0
    /\ cycles = 0
    /\ last_trace_ts = 0
    /\ last_speedtest_ts = 0
    /\ hop_ips = <<>>
    /\ targets = <<>>
    /\ tidx = 0
    /\ ts_ms = 0
    /\ tool = NoTool
    /\ servers = <<>>
    /\ sidx = 0
    /\ sleep_left = 0
    /\ db_exists \in BOOLEAN
    /\ tracer = NoTool
    /\ durable \in IF db_exists THEN QueryTables ELSE {EmptyTables}
    /\ db = durable
    /\ conn_open = FALSE
    /\ csvw = NewHourlyCSV
    /\ fs = <<>>
    /\ inflight = {}
    /\ probe_log = <<>>
    /\ base = TableLens(durable)
    /\ discoveries = <<>>
    /\ fails = 0
    /\ fault = [sink |-> "none"]
    /\ runs = <<StartTime>>
    /\ reply = NoReply

SpecQuery == InitQuery /\ [][NextQuery]_vars

\* the Query Service answers while the collector runs, over the last of the
\* cycles followed
NextServe ==
    \/ Next
    \/ NextQuery

InitServe == Startup(StartupConfigs, MaxCycles - 1, {"traceroute"})

SpecServe == InitServe /\ [][NextServe]_vars

\* ------------------------------------------------------------------ claims
RefreshTicks == TRACEROUTE_REFRESH_SEC * TicksPerSec

PingsStarted == SelectSeq(probe_log, LAMBDA e : e.kind = "ping")
SpeedsStarted == SelectSeq(probe_log, LAMBDA e : e.kind = "speed")

\* C1: at most one external probe (discovery, latency, throughput) is in
\* flight in any reachable state of the scheduler loop, and none outside a
\* probe call.
C1_AtMostOneProbeInFlight ==
    /\ Cardinality(inflight) <= 1
    /\ pc \in {"while", "sleep", "done"} => inflight = {}

\* a throughput probe is in flight after a discovery and latency probes ran
C1_Witness ==
    /\ pc = "speed"
    /\ Cardinality(inflight) = 1
    /\ \E p \in inflight : p[1] = "speed"
    /\ probe_log[1].kind = "trace"
    /\ Len(PingsStarted) >= 2

C3_TargetsInOrder ==
    pc = "ping" =>
        /\ Len(targets) = Len(hop_ips) + 1
        /\ \A i \in 1..Len(hop_ips) :
              targets[i] = <<hop_ips[i], <<"hop1", "hop2", "hop3">>[i]>>
        /\ targets[Len(targets)] = <<DEST_HOST, "dest">>
        /\ Len(PingsStarted) = tidx
        /\ \A i \in 1..tidx : PingsStarted[i].arg = targets[i][1]
        /\ Len(db.pings) = base.pings + tidx - 1
        /\ \A i \in 1..(tidx - 1) :
              /\ db.pings[base.pings + i].target = targets[i][1]
              /\ db.pings[base.pings + i].tag = targets[i][2]

C3_AllTargetsProbed ==
    (pc = "ping" /\ pc' # "ping" /\ ~shutdown) =>
        /\ tidx = Len(targets)
        /\ Len(db'.pings) = base.pings + Len(targets)
        /\ db'.pings[Len(db'.pings)].target = DEST_HOST
        /\ db'.pings[Len(db'.pings)].tag = "dest"

\* C3: the targets are probed once each in hop-index order, destination
\* last, one latency row per attempt (in every state of the latency loop, and
\* in the step that leaves it without cancellation).
C3_OneSamplePerTargetInOrder == [](C3_TargetsInOrder) /\ [][C3_AllTargetsProbed]_vars

\* the latency step of a cycle with three hops ended, a hop having failed
C3_Witness ==
    /\ pc = "sleep"
    /\ ~shutdown
    /\ Len(hop_ips) = 3
    /\ Len(db.pings) = base.pings + 4
    /\ db.pings[base.pings + 2].success = 0
    /\ db.pings[base.pings + 4].tag = "dest"

\* C4 as stated: while the probe of target k+1 is in flight the sample of
\* target k is committed.
C4_CommittedBeforeNextProbe ==
    (pc = "ping" /\ tidx > 1) => durable.pings = db.pings

\* C4 amended: the sample of target k is inserted on the writer connection
\* before the probe of target k+1 starts, and is committed once per cycle,
\* after the last latency probe of the cycle and before a throughput probe
\* or the idle wait starts; while a latency probe is in flight the committed
\* latency rows are exactly those of the earlier cycles.
C4_InsertedThenCommittedPerCycle ==
    /\ pc = "ping" =>
          /\ Len(db.pings) = base.pings + tidx - 1
          /\ durable.pings = SubSeq(db.pings, 1, base.pings)
    /\ pc \in {"speed", "sleep", "while", "done"} => durable = db

\* the second target is being probed, the first one's sample uncommitted
C4_Witness ==
    /\ pc = "ping"
    /\ tidx = 2
    /\ Len(db.pings) = Len(durable.pings) + 1

\* the rendering of a latency row in any pings.csv
InSomePingFile(row) ==
    \E key \in DOMAIN fs :
        /\ key[2] = CSV_PINGS_NAME
        /\ \E i \in 1..Len(fs[key]) :
              fs[key][i] = <<Cell(row.ts_ms), row.target, row.tag,
                             NoneAsEmpty(row.rtt_ms), Cell(row.success)>>

\* C5: a write failure of one sink does not abort the cycle and does not
\* prevent the write of the same record to the other sink.
C5_WriteFailureIsolated ==
    fault.sink # "none" =>
        /\ pc # "crashed"
        /\ fault.sink = "db" => InSomePingFile(fault.row)
        /\ fault.sink = "csv" => \E i \in 1..Len(db.pings) : db.pings[i] = fault.row

\* the server a throughput row is expected to name
ServerOf(e) == IF e.arg = NoServer THEN "auto" ELSE e.arg
ExpectedBatch == IF servers = <<>> THEN <<NoServer>> ELSE servers
SpeedRowsOfCycle == SubSeq(db.speedtests, base.speedtests + 1, Len(db.speedtests))
SpeedDataRows ==
    LET names == {key \in DOMAIN fs : key[2] = CSV_SPEEDTESTS_NAME}
        RECURSIVE Sum(_)
        Sum(ks) == IF ks = {} THEN 0
                   ELSE LET k == CHOOSE x \in ks : TRUE
                        IN  (Len(fs[k]) - 1) + Sum(ks \ {k})
    IN  Sum(names)

\* C6: a due throughput batch probes the servers of the startup-selected list
\* once each, in list order (once, with no server named, when the list is
\* empty), and while a throughput probe is in flight the outcomes of the
\* servers before it are persisted and committed.
C6_BatchInOrder ==
    pc = "speed" =>
        /\ Len(SpeedsStarted) = sidx
        /\ \A i \in 1..sidx : SpeedsStarted[i].arg = ExpectedBatch[i]
        /\ \A i \in 1..(sidx - 1) : SpeedsStarted[i].ok \in {"ok", "failed"}
        /\ Len(SpeedRowsOfCycle) =
              Len(SelectSeq(SpeedsStarted, LAMBDA e : e.ok = "ok"))
        /\ durable = db

C6_BatchComplete ==
    (pc = "speed" /\ pc' # "speed" /\ ~shutdown) =>
        /\ Len(SpeedsStarted) = Len(ExpectedBatch)
        /\ durable' = db'

C7_RowsOfSucceeded ==
    LET good == SelectSeq(SpeedsStarted, LAMBDA e : e.ok = "ok")
    IN  /\ Len(SpeedRowsOfCycle) = Len(good)
        /\ \A i \in 1..Len(good) : SpeedRowsOfCycle[i].server_id = ServerOf(good[i])
        /\ SpeedDataRows = Len(db.speedtests)

C7_FailureDoesNotBlock ==
    (pc = "speed" /\ ~shutdown /\ sidx < Len(servers) /\ clock' # clock) =>
        (pc' = "speed" /\ sidx' = sidx + 1)

C8_ClockOldDuringBatch ==
    pc = "speed" => now - last_speedtest_ts >= SPEEDTEST_INTERVAL_SEC * TicksPerSec

C8_ClockSetOnLeaving ==
    /\ last_speedtest_ts' # last_speedtest_ts => (pc = "speed" /\ pc' # "speed")
    /\ (pc = "speed" /\ pc' # "speed") => last_speedtest_ts' = now

\* C8: the last-throughput clock is set once per batch, on leaving it, and
\* never between two servers.
C8_ClockOncePerBatch == [](C8_ClockOldDuringBatch) /\ [][C8_ClockSetOnLeaving]_vars

\* the second server of a second batch is being probed
C8_Witness ==
    /\ pc = "speed"
    /\ sidx = 2
    /\ last_speedtest_ts > 0

\* C9: no latency probe starts after the flag was set during the latency
\* probe before it, no throughput probe after the flag was set during the
\* throughput probe before it, and no cycle is entered once the flag is set.
C9_CheckpointsHonoured ==
    \A i \in 1..Len(probe_log) :
        probe_log[i].late => (i > 1 /\ probe_log[i - 1].kind # probe_log[i].kind)

\* the flag was set during a latency probe and the latency loop was left
\* with targets unprobed
C9_Witness ==
    /\ shutdown
    /\ pc = "sleep"
    /\ Len(PingsStarted) < Len(targets)
    /\ probe_log[Len(probe_log)].kind = "ping"

\* C10: once the flag is set, no probe of a later step of the cycle is started.
C10_NoProbeAfterCancel ==
    \A i \in 1..Len(probe_log) : ~probe_log[i].late

\* the header row of a flat file, by its name
HeaderOf(name) ==
    IF name = CSV_PINGS_NAME THEN PingHeader
    ELSE IF name = CSV_TRACES_NAME THEN TraceHeader
    ELSE SpeedHeader

\* the positions of the header rows of a file
HeaderRows(rows, name) == {i \in 1..Len(rows) : rows[i][1] = HeaderOf(name)[1]}

\* the rows of a file stamped in from..to
StampedIn(rows, from, to) ==
    {i \in 2..Len(rows) : rows[i][1] \in {Cell(t) : t \in from..to}}

C11_HeaderFirstAndOnce ==
    \A key \in DOMAIN fs :
        /\ fs[key] # <<>>
        /\ fs[key][1] = HeaderOf(key[2])
        /\ HeaderRows(fs[key], key[2]) = {1}

C11_HeaderIffEmpty ==
    \A key \in DOMAIN fs' :
        LET was == FileRows(fs, key)
        IN  (\E i \in (Len(was) + 1)..Len(fs'[key]) : fs'[key][i] = HeaderOf(key[2]))
                <=> was = <<>>

\* C11: every flat file of every kind and hour directory holds exactly one
\* header row, and it is the first row, whatever writes, hour rotations and
\* restarts of the process (within the same hour too) came before; a step
\* puts a header into a file exactly when the file was empty before it.
C11_OneHeaderPerFile == [](C11_HeaderFirstAndOnce) /\ [][C11_HeaderIffEmpty]_vars

\* the restarted process has appended to a latency file of the hour it was
\* restarted in, below rows of the first run, and a later hour has a file too
C11_Witness ==
    /\ Len(runs) = 2
    /\ <<HourDir(runs[2]), CSV_PINGS_NAME>> \in DOMAIN fs
    /\ StampedIn(fs[<<HourDir(runs[2]), CSV_PINGS_NAME>>], StartTime, runs[2] - 1) # {}
    /\ StampedIn(fs[<<HourDir(runs[2]), CSV_PINGS_NAME>>], runs[2], clock) # {}
    /\ <<HourDir(runs[2]) + 1, CSV_PINGS_NAME>> \in DOMAIN fs

\* the timestamp a data row carries in its first column
Stamp(row) == CHOOSE t \in StartTime..clock : Cell(t) = row[1]

\* the first and the last tick of an hour directory
HourStart(hour) == hour * TicksPerHour
HourEnd(hour) == (hour + 1) * TicksPerHour - 1

\* C12: every data row of a flat file lies in the hour directory whose hour
\* contains the row's own timestamp; a record stamped before an hour boundary
\* is never written into the later hour's directory.
C12_RowsInHourOfStamp ==
    \A key \in DOMAIN fs : \A i \in 2..Len(fs[key]) :
        /\ HourStart(key[1]) <= Stamp(fs[key][i])
        /\ Stamp(fs[key][i]) <= HourEnd(key[1])

C12_WrittenInHourOfClock ==
    \A key \in DOMAIN fs' :
        \A i \in (Len(FileRows(fs, key)) + 1)..Len(fs'[key]) :
            /\ HourStart(key[1]) <= clock'
            /\ clock' <= HourEnd(key[1])
            /\ i >= 2 => fs'[key][i][1] =
                    IF key[2] = CSV_TRACES_NAME THEN Cell(clock') ELSE Cell(clock)

\* C12: every data row is written into the directory of the wall-clock hour
\* in which its probe returned; a path row is stamped at that time, a latency
\* or a throughput row when its probe started, which may be the hour before.
C12_RowsInHourOfWrite == [][C12_WrittenInHourOfClock]_vars

\* a latency row stamped before the hour boundary lies in the later hour's file
C12_Witness ==
    /\ <<HourDir(StartTime) + 1, CSV_PINGS_NAME>> \in DOMAIN fs
    /\ \E i \in 2..Len(fs[<<HourDir(StartTime) + 1, CSV_PINGS_NAME>>]) :
          Stamp(fs[<<HourDir(StartTime) + 1, CSV_PINGS_NAME>>][i]) <= HourEnd(HourDir(StartTime))

\* how often v occurs in a sequence
Occurs(seq, v) == Cardinality({i \in 1..Len(seq) : seq[i] = v})

\* the positions of the stored latency rows stamped in [start, end]
PingsInRange(start_ms, end_ms) ==
    {i \in 1..Len(durable.pings) :
        start_ms <= durable.pings[i].ts_ms /\ durable.pings[i].ts_ms <= end_ms}

\* C13: for start <= end the raw latency query returns exactly the stored
\* latency rows whose timestamp lies in [start, end], each as often as it is
\* stored, in ascending order of timestamp.
C13_RawRowsInRangeAscending ==
    (reply.kind = "raw" /\ reply.args[1] <= reply.args[2]) =>
        LET want == PingsInRange(reply.args[1], reply.args[2])
        IN  /\ Len(reply.rows) = Cardinality(want)
            /\ \A i \in want :
                  Occurs(reply.rows, PingTuple(durable.pings[i])) =
                  Cardinality({j \in want : durable.pings[j] = durable.pings[i]})
            /\ \A i, j \in 1..Len(reply.rows) :
                  i < j => reply.rows[i][1] <= reply.rows[j][1]

\* a raw query over rows stored out of timestamp order, some outside the
\* range and one on each end of it
C13_Witness ==
    /\ reply.kind = "raw"
    /\ reply.args = <<1000, 2000, 0>>
    /\ Len(reply.rows) = 3
    /\ Len(durable.pings) = 4
    /\ reply.rows[1][1] = 1000
    /\ reply.rows[3][1] = 2000
    /\ durable.pings[1].ts_ms = 2000

\* C14: over rows written by the collector, every row of a bucketed answer
\* (width > 0) has a bucket timestamp that is an exact multiple of the width,
\* a success count not above its total count, and an average that is absent
\* exactly when the success count is 0.
C14_BucketRowsWellFormed ==
    (reply.kind = "bucketed" /\ reply.args[3] > 0) =>
        \A i \in 1..Len(reply.rows) :
            /\ reply.rows[i][1] % reply.args[3] = 0
            /\ reply.rows[i][4] <= reply.rows[i][5]
            /\ reply.rows[i][3] = None <=> reply.rows[i][4] = 0

\* a bucketed answer with a bucket of failures only and a bucket of a
\* success and a failure, at a width that does not divide the timestamps
C14_Witness ==
    /\ reply.kind = "bucketed"
    /\ reply.args[3] = 1500
    /\ \E i, j, k \in 1..Len(reply.rows) :
          /\ reply.rows[i][4] = 0
          /\ reply.rows[i][3] = None
          /\ reply.rows[j][4] = 1
          /\ reply.rows[j][5] = 2
          /\ reply.rows[k][1] = 1500

\* the reference aggregation: the bucket and tag of a stored row, and the
\* rows of a range that fall under a bucket and a tag
KeyOf(i, width) ==
    <<(durable.pings[i].ts_ms \div width) * width, durable.pings[i].tag>>

Under(key, start_ms, end_ms, width) ==
    {i \in PingsInRange(start_ms, end_ms) : KeyOf(i, width) = key}

RECURSIVE RttSum(_)
RttSum(S) ==
    IF S = {} THEN 0
    ELSE LET i == CHOOSE x \in S : TRUE
         IN  durable.pings[i].rtt_ms[1] + RttSum(S \ {i})

MeanOf(S) == IF S = {} THEN None ELSE Some([sum |-> RttSum(S), n |-> Cardinality(S)])

\* C15: the bucketed answer is the reference aggregation of the stored rows
\* in [start, end]: one row per pair (floor(ts / width) * width, tag) that
\* occurs among them, its total count the number of those rows, its success
\* count the number of the successful ones, its average their mean (absent
\* when there is none), in ascending order of bucket; the total counts add
\* up to the number of rows in the range.
C15_BucketedIsReference ==
    (reply.kind = "bucketed" /\ reply.args[3] > 0) =>
        LET start_ms == reply.args[1]
            end_ms == reply.args[2]
            width == reply.args[3]
            keys == {KeyOf(i, width) : i \in PingsInRange(start_ms, end_ms)}
            out == reply.rows
        IN  /\ Len(out) = Cardinality(keys)
            /\ {<<out[i][1], out[i][2]>> : i \in 1..Len(out)} = keys
            /\ \A i \in 1..Len(out) :
                  LET all == Under(<<out[i][1], out[i][2]>>, start_ms, end_ms, width)
                      good == {k \in all : durable.pings[k].success = 1}
                  IN  /\ out[i][5] = Cardinality(all)
                      /\ out[i][4] = Cardinality(good)
                      /\ out[i][3] = MeanOf(good)
            /\ \A i, j \in 1..Len(out) : i < j => out[i][1] <= out[j][1]
            /\ SumOf([i \in 1..Len(out) |-> out[i][5]]) =
               Cardinality(PingsInRange(start_ms, end_ms))

\* four destination rows at 0, 1000, 2000 and 3000, width 2000 over
\* [0, 3999]: the buckets 0 and 2000, of two rows each
C15_Witness ==
    /\ reply.kind = "bucketed"
    /\ reply.args = <<0, 3999, 2000>>
    /\ {durable.pings[i].ts_ms : i \in 1..Len(durable.pings)} = {0, 1000, 2000, 3000}
    /\ Len(durable.pings) = 4
    /\ \A i \in 1..Len(durable.pings) : durable.pings[i].tag = "dest"
    /\ Len(reply.rows) = 2
    /\ reply.rows[1][1] = 0 /\ reply.rows[1][5] = 2
    /\ reply.rows[2][1] = 2000 /\ reply.rows[2][5] = 2
    /\ reply.rows[1][3] = Some([sum |-> 17, n |-> 2])

\* the positions of the stored path rows of the latest timestamp
LatestHops ==
    {i \in 1..Len(durable.traceroutes) :
        \A j \in 1..Len(durable.traceroutes) :
            durable.traceroutes[j].ts_ms <= durable.traceroutes[i].ts_ms}

\* C16: the latest-path query returns exactly the path rows whose timestamp
\* is the greatest one stored, in ascending order of hop index, and no row of
\* another timestamp; over an empty table it returns nothing.
C16_LatestPathOnly ==
    reply.kind = "latest_traceroute" =>
        /\ Len(reply.rows) = Cardinality(LatestHops)
        /\ \A i \in LatestHops : Occurs(reply.rows, TraceTuple(durable.traceroutes[i])) = 1
        /\ \A i, j \in 1..Len(reply.rows) : i < j => reply.rows[i][3] < reply.rows[j][3]
        /\ durable.traceroutes = <<>> => reply.rows = <<>>

\* the discovery of the greatest timestamp was stored first, of two, and
\* its two hops are returned
C16_Witness ==
    /\ reply.kind = "latest_traceroute"
    /\ Len(reply.rows) = 2
    /\ Len(durable.traceroutes) = 5
    /\ durable.traceroutes[1].ts_ms = 3000
    /\ durable.traceroutes[5].ts_ms = 1000
    /\ reply.rows[1][1] = 3000

IsPrefix(s, t) == Len(s) <= Len(t) /\ s = SubSeq(t, 1, Len(s))

\* a step of the Query Service: the collector did not move
QueryStep == UNCHANGED <<pc, clock, shutdown>>

C17_StoreIsCollectorsWrites ==
    /\ IsPrefix(durable.pings, db.pings)
    /\ IsPrefix(durable.traceroutes, db.traceroutes)
    /\ IsPrefix(durable.speedtests, db.speedtests)

C17_QueryStepsWriteNothing ==
    QueryStep => UNCHANGED <<durable, db, fs>>

\* C17: the Query Service never writes: whatever queries of the four kinds
\* are interleaved with the collector's writes, each leaves the three tables
\* (and the flat files) as they were, and the committed tables hold nothing
\* but what the collector inserted, in its order.
C17_QueriesNeverWrite == [](C17_StoreIsCollectorsWrites) /\ [][C17_QueryStepsWriteNothing]_vars

\* a throughput query was answered between the commits of two probes of a
\* batch, a latency row of the cycle being committed too
C17_Witness ==
    /\ reply.kind = "speedtests"
    /\ Len(reply.rows) = 1
    /\ Len(durable.speedtests) = 2
    /\ durable.pings # <<>>

C18_TablesOnlyGrow ==
    /\ IsPrefix(db.pings, db'.pings)
    /\ IsPrefix(db.traceroutes, db'.traceroutes)
    /\ IsPrefix(db.speedtests, db'.speedtests)
    /\ IsPrefix(durable.pings, durable'.pings)
    /\ IsPrefix(durable.traceroutes, durable'.traceroutes)
    /\ IsPrefix(durable.speedtests, durable'.speedtests)

\* C18: the stored tables are append-only: every step of the collector
\* keeps the rows each of the three tables held before it, unchanged and in
\* place (no update, no delete), so that the rows of a table only grow.
C18_AppendOnly == [][C18_TablesOnlyGrow]_vars

\* rows of all three kinds were committed in one cycle, more in a later one
C18_Witness ==
    /\ cycles >= 2
    /\ Len(durable.pings) > base.pings
    /\ base.pings > 0
    /\ base.traceroutes > 0
    /\ Len(durable.speedtests) > base.speedtests
    /\ base.speedtests > 0

\* a stored value as a flat-file field: absent as the empty field, present
\* as itself
AsField(v) == IF v = None THEN "" ELSE ToString(v[1])

\* the data rows of the flat files of one kind, hour after hour
DataRows(name) ==
    LET hours == Ascending({key[1] : key \in {k \in DOMAIN fs : k[2] = name}})
    IN  Concat([i \in 1..Len(hours) |-> Tail(fs[<<hours[i], name>>])])

PingFields(r) ==
    <<ToString(r.ts_ms), r.target, r.tag, AsField(r.rtt_ms), ToString(r.success)>>

TraceFields(r) == <<ToString(r.ts_ms), r.dest, ToString(r.hop), r.ip>>

SpeedFields(r) ==
    <<ToString(r.ts_ms), r.tool, r.server_id, r.server_name, AsField(r.ping_ms),
      AsField(r.download_mbps), AsField(r.upload_mbps), AsField(r.jitter_ms)>>

\* C19: the flat files mirror the store: for every inserted row of a table
\* there is exactly one data row in the flat files of its kind, in the same
\* order, with the same columns and the same values, an absent value as the
\* empty field and every present value, 0 too, as that value.
C19_FlatFilesMirrorStore ==
    /\ DataRows(CSV_PINGS_NAME) = [i \in 1..Len(db.pings) |-> PingFields(db.pings[i])]
    /\ DataRows(CSV_TRACES_NAME) =
           [i \in 1..Len(db.traceroutes) |-> TraceFields(db.traceroutes[i])]
    /\ DataRows(CSV_SPEEDTESTS_NAME) =
           [i \in 1..Len(db.speedtests) |-> SpeedFields(db.speedtests[i])]

\* C21: the latency endpoint dispatches on bucket_ms: a request without
\* bucket_ms, or with bucket_ms = 0, is answered with raw rows (ts, target,
\* tag, rtt, success), a request with bucket_ms > 0 with aggregated rows
\* (bucket_ts, tag, avg_rtt, success_count, total_count); the aggregation
\* never runs with a width that is not > 0.
C21_DispatchOnBucket ==
    reply.kind \in {"raw", "bucketed"} =>
        /\ (reply.sent = None \/ reply.sent = Some(0)) => reply.kind = "raw"
        /\ (reply.sent # None /\ reply.sent[1] > 0) => reply.kind = "bucketed"
        /\ reply.kind = "bucketed" =>
              /\ reply.args[3] > 0
              /\ \A i \in 1..Len(reply.rows) :
                    /\ Len(reply.rows[i]) = 5
                    /\ reply.rows[i][1] % reply.args[3] = 0
                    /\ reply.rows[i][2] \in {"dest", "hop1", "hop2", "hop3"}
                    /\ reply.rows[i][5] >= 1
        /\ reply.kind = "raw" =>
              \A i \in 1..Len(reply.rows) :
                  \E k \in 1..Len(durable.pings) : reply.rows[i] = PingTuple(durable.pings[k])

\* a request with a negative bucket_ms was answered with raw rows
C21_Witness ==
    /\ reply.kind = "raw"
    /\ reply.sent = Some(-1500)
    /\ Len(reply.rows) >= 2

C22_EmptyWithoutStore == ~db_exists => reply.rows = <<>>

C22_StoreNotCreated == ~db_exists => (~db_exists' /\ reply'.rows = <<>>)

\* C22: while the store file does not exist, each of the four queries
\* answers with an empty array, and none of them creates the file.
C22_MissingStoreIsEmpty == [](C22_EmptyWithoutStore) /\ [][C22_StoreNotCreated]_vars

\* the bucketed latency query was answered without a store file
C22_Witness ==
    /\ ~db_exists
    /\ reply.kind = "bucketed"
    /\ reply.rows = <<>>

\* ---------------------------------------------------------------------- C23
SpeedFiles == {key \in DOMAIN fs : key[2] = CSV_SPEEDTESTS_NAME}
TraceFiles == {key \in DOMAIN fs : key[2] = CSV_TRACES_NAME}
CycleOver == pc \in {"while", "sleep", "done"}

\* with no throughput tool found at startup, no throughput probe is started
\* and no throughput row reaches either sink, while every cycle that is over
\* has stored its latency rows
C23_NoThroughputWithoutTool ==
    tool = NoTool =>
        /\ pc # "speed"
        /\ \A i \in 1..Len(probe_log) : probe_log[i].kind # "speed"
        /\ \A p \in inflight : p[1] # "speed"
        /\ db.speedtests = <<>>
        /\ SpeedFiles = {}
        /\ CycleOver => Len(db.pings) >= cycles

\* with no discovery tool, no discovery probe is started, the hop set stays
\* empty, no hop row reaches either sink, and every cycle probes the fixed
\* destination and nothing else
C23_DestOnlyWithoutTracer ==
    tracer = NoTool =>
        /\ pc # "trace"
        /\ \A i \in 1..Len(probe_log) : probe_log[i].kind # "trace"
        /\ hop_ips = <<>>
        /\ db.traceroutes = <<>>
        /\ TraceFiles = {}
        /\ pc = "ping" => targets = <<(<<DEST_HOST, "dest">>)>>
        /\ \A i \in 1..Len(db.pings) :
              db.pings[i].target = DEST_HOST /\ db.pings[i].tag = "dest"
        /\ CycleOver => Len(db.pings) = cycles

\* C23: a missing tool is never fatal: with no throughput tool at startup no
\* throughput probe is started and no throughput row is written while the
\* latency cycles go on; with no discovery tool the hop set stays empty and
\* every cycle probes exactly the fixed destination.
C23_MissingToolsNotFatal ==
    C23_NoThroughputWithoutTool /\ C23_DestOnlyWithoutTracer

C23_Witness ==
    /\ tool = NoTool
    /\ tracer = NoTool
    /\ cycles = MaxCycles
    /\ pc = "sleep"
    /\ Len(db.pings) = MaxCycles
    /\ Len(discoveries) = MaxCycles

\* ---------------------------------------------------------------------- C24
\* the exit state: committed, connection closed, no flat-file handle, no child
C24_ExitState ==
    pc = "done" =>
        /\ shutdown
        /\ ~conn_open
        /\ durable = db
        /\ csvw.files = {}
        /\ inflight = {}

\* once the flag is set the idle wait sleeps no further increment: its next
\* step leaves the wait
C24_IdleWaitBrokenOff ==
    (shutdown /\ pc = "sleep") => (clock' = clock /\ sleep_left' = sleep_left)

InFlightAtCancel ==
    /\ shutdown
    /\ pc \in {"ping", "speed"}
    /\ ~probe_log[Len(probe_log)].late

LastRow(f, name, t) == f[<<HourDir(t), name>>][Len(f[<<HourDir(t), name>>])]

\* the step that follows is the return of that probe, with the record of an
\* uncancelled probe in both sinks and the store committed
C25_ProbeCompletes ==
    InFlightAtCancel =>
        LET n == Len(probe_log)
            sid == IF servers = <<>> THEN NoServer ELSE servers[sidx]
            srow == SpeedRow(ts_ms, SpeedResult(tool, sid))
        IN  /\ probe_log'[n].ok \in {"ok", "failed"}
            /\ Running(probe_log[n].kind, probe_log[n].arg, probe_log) \in inflight
            /\ Running(probe_log[n].kind, probe_log[n].arg, probe_log) \notin inflight'
            /\ durable' = db'
            /\ pc = "ping" =>
                  \E res \in PingOutcomes :
                      LET row == PingRow(ts_ms, targets[tidx][1], targets[tidx][2],
                                         res.ok, res.rtt)
                      IN  /\ res.ok = (probe_log'[n].ok = "ok")
                          /\ db'.pings = Append(db.pings, row)
                          /\ DataRows(CSV_PINGS_NAME)' =
                                 Append(DataRows(CSV_PINGS_NAME), PingFields(row))
                          /\ LastRow(fs', CSV_PINGS_NAME, clock') = PingFields(row)
            /\ (pc = "speed" /\ probe_log'[n].ok = "ok") =>
                  /\ db'.speedtests = Append(db.speedtests, srow)
                  /\ Len(DataRows(CSV_SPEEDTESTS_NAME)') =
                         Len(DataRows(CSV_SPEEDTESTS_NAME)) + 1
                  /\ SubSeq(LastRow(fs', CSV_SPEEDTESTS_NAME, clock'), 1, 4) =
                         SubSeq(SpeedFields(srow), 1, 4)
            /\ (pc = "speed" /\ probe_log'[n].ok = "failed") =>
                  /\ db' = db
                  /\ fs' = fs

\* nothing is left uncommitted or running when the process has exited
C25_CommittedAtExit == pc = "done" => (durable = db /\ inflight = {})

CsvNames == {CSV_PINGS_NAME, CSV_TRACES_NAME, CSV_SPEEDTESTS_NAME}

\* the cache holds at most one handle per file kind, every handle is a file
\* of the directory of the current hour key, and no file object is open
\* besides the cached ones
C26_CacheWellFormed ==
    /\ \A h \in csvw.files :
          h[2] \in CsvNames /\ csvw.current_hour_dir = Some(h[1])
    /\ \A h, g \in csvw.files : h[2] = g[2] => h = g
    /\ csvw.open = csvw.files

\* a step that writes rows writes them to files of the hour of the write,
\* through handles the cache then holds, after every handle of another hour
\* has been closed
C26_WritesThroughCurrentHandles ==
    \A key \in DOMAIN fs' :
        (key \notin DOMAIN fs \/ fs'[key] # fs[key]) =>
            /\ key[1] = HourDir(clock')
            /\ csvw'.current_hour_dir = Some(key[1])
            /\ key \in csvw'.files
            /\ \A h \in csvw.files : h[1] # key[1] => h \notin csvw'.open

\* C26: after every write the handle cache holds at most one open handle per
\* file kind, each on a file of the directory of the current hour key; on a
\* key change every cached handle is flushed and closed before a file of the
\* new hour is opened, so no handle of an older hour is written to after the
\* rotation.
C26_HandleCache == [](C26_CacheWellFormed) /\ [][C26_WritesThroughCurrentHandles]_vars

\* the cache after a rotation: handles of the second hour only, while files
\* of the first hour exist
C26_Witness ==
    /\ csvw.current_hour_dir = Some(HourDir(StartTime) + 1)
    /\ Cardinality(csvw.files) >= 2
    /\ <<HourDir(StartTime), CSV_PINGS_NAME>> \in DOMAIN fs
    /\ <<HourDir(StartTime) + 1, CSV_PINGS_NAME>> \in DOMAIN fs

\* ---------------------------------------------------------------------- C27
\* the addresses the latest-path query returns when asked in this state
LatestPathNow ==
    LET rows == query_last_traces(get_conn(db_exists, durable))
    IN  [i \in 1..Len(rows) |-> rows[i][4]]

\* C27: the latest-path query reflects the most recent discovery: the hops
\* it returns are the hop set the scheduler holds from its most recent
\* discovery, also after a discovery that resolved no hop.
C27_LatestPathIsHopSet == LatestPathNow = hop_ips

\* ---------------------------------------------------------------------- C28
\* the path rows a step has added to the store
NewTraces == SubSeq(db'.traceroutes, Len(db.traceroutes) + 1, Len(db'.traceroutes))

\* a step in which a discovery ends adds one row per address of the
\* scheduler's new hop set, numbered 1..n in the order of the discovery
\* tool's output, all with one timestamp, and commits them; the flat files
\* get as many rows; no other step touches the path rows or the hop set
C28_DiscoveryStep ==
    IF Len(discoveries') = Len(discoveries) + 1
    THEN /\ Len(NewTraces) <= MaxHops
         /\ Len(NewTraces) = Len(hop_ips')
         /\ hop_ips' \in TraceOutcomes
         /\ \A i \in 1..Len(NewTraces) :
               /\ NewTraces[i].hop = i
               /\ NewTraces[i].ip = hop_ips'[i]
               /\ NewTraces[i].ts_ms = NewTraces[1].ts_ms
               /\ NewTraces[i].dest = DEST_HOST
         /\ SubSeq(db'.traceroutes, 1, Len(db.traceroutes)) = db.traceroutes
         /\ durable'.traceroutes = db'.traceroutes
         /\ Len(DataRows(CSV_TRACES_NAME)') =
                Len(DataRows(CSV_TRACES_NAME)) + Len(NewTraces)
    ELSE /\ db'.traceroutes = db.traceroutes
         /\ hop_ips' = hop_ips

\* C28: every path discovery persists at most 3 PathHop rows, one per
\* resolved address, with hop indices exactly 1..n in resolution order and
\* one timestamp shared by all rows of the discovery; the scheduler's hop set
\* after the discovery is exactly those n addresses, in place of the previous
\* hop set.
C28_DiscoveryRows == [][C28_DiscoveryStep]_vars

\* a discovery of three hops was followed by a discovery of one hop, which
\* is the hop set now
C28_Witness ==
    /\ Len(discoveries) = 2
    /\ Len(db.traceroutes) = 4
    /\ db.traceroutes[3].hop = 3
    /\ db.traceroutes[4].hop = 1
    /\ db.traceroutes[4].ts_ms > db.traceroutes[3].ts_ms
    /\ hop_ips = <<db.traceroutes[4].ip>>

\* ---------------------------------------------------------------------- C29
LatencyTags == {"hop1", "hop2", "hop3", "dest"}

\* the rows of the pings table, committed or not
C29_StoredSamples ==
    \A i \in 1..Len(db.pings) :
        LET r == db.pings[i]
        IN  /\ r.success \in {0, 1}
            /\ r.success = 0 => r.rtt_ms = None
            /\ r.success = 1 => r.rtt_ms # None
            /\ r.tag \in LatencyTags

\* the data rows of the pings files: ts_ms, target, tag, rtt_ms, success
C29_FlatFileSamples ==
    \A key \in DOMAIN fs :
        key[2] = CSV_PINGS_NAME =>
            \A i \in 2..Len(fs[key]) :
                LET r == fs[key][i]
                IN  /\ Len(r) = 5
                    /\ r[5] \in {"0", "1"}
                    /\ r[5] = "0" => r[4] = ""
                    /\ r[5] = "1" => r[4] # ""
                    /\ r[3] \in LatencyTags

\* C29: every latency sample the collector persists, in the store and in the
\* flat files, has success 0 or 1, no round-trip time when success is 0, a
\* round-trip time when success is 1, and a hop tag among hop1, hop2, hop3,
\* dest.
C29_SamplesWellFormed == C29_StoredSamples /\ C29_FlatFileSamples

\* a lost probe of the third hop and an answered probe of the destination
\* are in both sinks
C29_Witness ==
    /\ \E i, j \in 1..Len(db.pings) :
          /\ db.pings[i].tag = "hop3" /\ db.pings[i].success = 0
          /\ db.pings[j].tag = "dest" /\ db.pings[j].success = 1
    /\ \E key \in DOMAIN fs :
          /\ key[2] = CSV_PINGS_NAME
          /\ \E i, j \in 2..Len(fs[key]) :
                /\ fs[key][i][3] = "hop3" /\ fs[key][i][5] = "0"
                /\ fs[key][j][3] = "dest" /\ fs[key][j][5] = "1"

====
